---- MODULE Spec2Model ----
(***************************************************************************)
(* Model of app.py, the Excel sheet merger: name normalisation, per-file   *)
(* extraction (process_excel_file), accumulation into the session state    *)
(* (merged_data, processed_files, processing_log), export                  *)
(* (create_individual_excel_file) and the reset / clear-log buttons.       *)
(*                                                                         *)
(* Strings that the program inspects character by character (worksheet     *)
(* and target names) are sequences of one-character strings.  File names   *)
(* are only compared and stored, so they are plain strings.                *)
(***************************************************************************)
EXTENDS Integers, Sequences, FiniteSets, TLC

VARIABLES
    merged_data,       \* st.session_state.merged_data: target name -> rows
    processed_files,   \* st.session_state.processed_files: set of file names
    processing_log,    \* st.session_state.processing_log: list of entries
    status,            \* the st.success / status_text message of the last rerun
    files_to_process,  \* the list of line 231 in the rerun of a Process Files
                       \* click; empty in the rerun of another click
    target_sheets,     \* the target names that rerun looked for
    reset_from,        \* history: the names processed_files held at a Reset All
                       \* click, kept until a second click follows it
    name_a, name_b,    \* two sheet names given to normalize_sheet_name
    norm_a, norm_b,    \* what it returned for them
    name_done,
    call_file,         \* arguments of one process_excel_file call
    call_targets,
    call_results,      \* what it returned
    call_log,
    call_tmp,          \* temporary files the call left on disk
    call_done,
    data_list,         \* argument of create_individual_excel_file
    excel_file,        \* what it returned
    export_done

sessionVars == <<merged_data, processed_files, processing_log, status,
                 files_to_process, target_sheets, reset_from>>
nameVars == <<name_a, name_b, norm_a, norm_b, name_done>>
callVars == <<call_file, call_targets, call_results, call_log, call_tmp, call_done>>
exportVars == <<data_list, excel_file, export_done>>

vars == <<sessionVars, nameVars, callVars, exportVars>>

-----------------------------------------------------------------------------
(* Bounds *)

\* files in one upload
MaxUpload == 2
\* target names in the sheet names input
MaxTargets == 2
\* characters of a sheet name given to normalize_sheet_name
MaxNameLen == 4
\* worksheets of a generated workbook
MaxSheets == 2
\* rows given to create_individual_excel_file
MaxRows == 3

-----------------------------------------------------------------------------
(* Sequence helpers *)

Range(s) == {s[k] : k \in DOMAIN s}

SeqsUpTo(S, n) == UNION {[1..k -> S] : k \in 0..n}

RECURSIVE SumOver(_, _)
SumOver(f, S) ==
    IF S = {} THEN 0
    ELSE LET x == CHOOSE y \in S : TRUE IN f[x] + SumOver(f, S \ {x})

-----------------------------------------------------------------------------
(* normalize_sheet_name: str(name).strip().lower().replace(' ','').replace('_','') *)

\* characters str.strip() removes when called without argument; the model's
\* alphabet has the space and the tab
Whitespace == {" ", "\t"}

Chars == {"a", "A", "b", " ", "_", "\t"}

RECURSIVE lstrip(_)
lstrip(s) ==
    IF s = <<>> THEN s
    ELSE IF Head(s) \in Whitespace THEN lstrip(Tail(s)) ELSE s

RECURSIVE rstrip(_)
rstrip(s) ==
    IF s = <<>> THEN s
    ELSE IF s[Len(s)] \in Whitespace THEN rstrip(SubSeq(s, 1, Len(s) - 1)) ELSE s

strip(s) == rstrip(lstrip(s))

\* str.lower() on the letters the model uses; every other character is kept
lower_char(c) ==
    IF c = "A" THEN "a" ELSE IF c = "B" THEN "b" ELSE IF c = "C" THEN "c" ELSE c

lower(s) == [k \in DOMAIN s |-> lower_char(s[k])]

\* s.replace(old, '') for a one-character old
RECURSIVE replace(_, _)
replace(s, old) ==
    IF s = <<>> THEN s
    ELSE IF Head(s) = old THEN replace(Tail(s), old)
         ELSE <<Head(s)>> \o replace(Tail(s), old)

\* a normalisation that leaves underscores in place
normalize_keep_underscore(name) == replace(lower(strip(name)), " ")

normalize_sheet_name(name) == replace(replace(lower(strip(name)), " "), "_")

-----------------------------------------------------------------------------
(* The uploaded workbooks.  A file is [name, opens, sheets]; opens = FALSE  *)
(* is a file pd.ExcelFile raises on.  A worksheet is [name, columns, rows,  *)
(* readable]; readable = FALSE is a worksheet pd.read_excel raises on, and  *)
(* rows is the sequence of data rows below the header (empty: df.empty).    *)

Sheet(name, columns, rows, readable) ==
    [name |-> name, columns |-> columns, rows |-> rows, readable |-> readable]

OneXlsx ==
    [name |-> "one.xlsx", opens |-> TRUE,
     sheets |-> << Sheet(<<"A", "b">>, {"x", "y"},
                         << [x |-> "1", y |-> "2"], [x |-> "3", y |-> "4"] >>, TRUE),
                   Sheet(<<"a", "_", "b">>, {"x", "z"},
                         << [x |-> "5", z |-> "6"] >>, TRUE),
                   Sheet(<<"b">>, {"x"}, << >>, TRUE) >>]

TwoXlsx ==
    [name |-> "two.xlsx", opens |-> TRUE,
     sheets |-> << Sheet(<<"B">>, {"x"}, << [x |-> "7"] >>, TRUE) >>]

BadXlsx == [name |-> "bad.xlsx", opens |-> FALSE, sheets |-> << >>]

Files == {OneXlsx, TwoXlsx, BadXlsx}

\* the target names a user types; line 212 strips each and drops empty ones
TargetNames == { <<"A", " ", "b">>, <<"B">> }

\* worksheets of the workbooks given to single process_excel_file calls
SheetPool ==
    { Sheet(<<"A", "b">>, {"x", "y"},
            << [x |-> "1", y |-> "2"], [x |-> "3", y |-> "4"] >>, TRUE),
      Sheet(<<"a", "_", "b">>, {"x", "z"}, << [x |-> "5", z |-> "6"] >>, TRUE),
      Sheet(<<"A", " ", "B">>, {"x"}, << >>, TRUE),
      Sheet(<<"B">>, {"x"}, << [x |-> "8"] >>, FALSE),
      Sheet(<<"b", " ">>, {"y"}, << [y |-> "9"] >>, TRUE) }

\* a workbook has at least one worksheet and no two worksheets of one name
Workbooks ==
    { [name |-> "book.xlsx", opens |-> TRUE, sheets |-> sh] :
        sh \in { q \in SeqsUpTo(SheetPool, MaxSheets) :
                   /\ q # << >>
                   /\ \A j, k \in DOMAIN q : j # k => q[j].name # q[k].name } }

CallTargetNames == TargetNames \cup { <<"c">> }

\* options of the "Process file limit" selectbox (line 151); AllFiles stands
\* for float('inf')
AllFiles == -1
PreviewLimits == {10, 50, 100, 500, AllFiles}

-----------------------------------------------------------------------------
(* Log messages: the f-strings of process_excel_file, kept as the template *)
(* and the values formatted into it.                                        *)

Msg(text, file, sheet, names, n, m) ==
    [text |-> text, file |-> file, sheet |-> sheet, names |-> names,
     n |-> n, m |-> m]

MsgProcessing(file) == Msg("Processing file: {file}", file, << >>, << >>, 0, 0)
MsgFoundSheets(names) ==
    Msg("Found {n} sheets: {names}", "", << >>, names, Len(names), 0)
MsgEmpty(sheet) == Msg("Sheet '{sheet}' is empty", "", sheet, << >>, 0, 0)
MsgFound(sheet, n, m) ==
    Msg("Found sheet '{sheet}' ({n} rows, {m} columns)", "", sheet, << >>, n, m)
MsgReadError(sheet) ==
    Msg("Error reading sheet '{sheet}': {e}", "", sheet, << >>, 0, 0)
MsgNotFound(target) == Msg("Sheet '{sheet}' not found", "", target, << >>, 0, 0)
MsgNoMatch == Msg("No matching sheets found in file", "", << >>, << >>, 0, 0)
MsgSuccess(n) ==
    Msg("Successfully processed {n} matching sheets", "", << >>, << >>, n, 0)
MsgFileError(file) ==
    Msg("Error processing file {file}: {e}", file, << >>, << >>, 0, 0)

-----------------------------------------------------------------------------
(* process_excel_file *)

\* a defaultdict(list) with no key
EmptyDict == << >>

\* d[key].extend(rows) on a defaultdict(list)
DictExtend(d, key, rows) ==
    [x \in DOMAIN d \cup {key} |->
        IF x = key THEN (IF key \in DOMAIN d THEN d[key] ELSE << >>) \o rows
        ELSE d[x]]

\* xls.sheet_names
sheet_names(file) == [k \in DOMAIN file.sheets |-> file.sheets[k].name]

\* a mapping in which the first worksheet of a key is kept
RECURSIVE build_first_seen(_, _, _)
build_first_seen(names, k, mapping) ==
    IF k > Len(names) THEN mapping
    ELSE LET normalized == normalize_sheet_name(names[k])
         IN build_first_seen(names, k + 1,
                [x \in DOMAIN mapping \cup {normalized} |->
                    IF x \in DOMAIN mapping THEN mapping[x] ELSE names[k]])

\* lines 52-55: later worksheets overwrite earlier ones with the same key
RECURSIVE build_sheet_mapping(_, _, _)
build_sheet_mapping(names, k, mapping) ==
    IF k > Len(names) THEN mapping
    ELSE LET normalized == normalize_sheet_name(names[k])
         IN build_sheet_mapping(names, k + 1,
                [x \in DOMAIN mapping \cup {normalized} |->
                    IF x = normalized THEN names[k] ELSE mapping[x]])

sheet_mapping(file) == build_sheet_mapping(sheet_names(file), 1, EmptyDict)

\* the worksheet pd.read_excel(tmp_file_path, sheet_name=original_sheet) reads
worksheet(file, original_sheet) ==
    CHOOSE s \in Range(file.sheets) : s.name = original_sheet

\* rows numbered from one
extracted_rows_one_based(file, sheet) ==
    [k \in DOMAIN sheet.rows |->
        [data |-> sheet.rows[k],
         source_file |-> file.name,
         source_sheet |-> sheet.name,
         row_index |-> k]]

\* lines 73-80: one ExtractedRow per data row, row_index the zero-based position
extracted_rows(file, sheet) ==
    [k \in DOMAIN sheet.rows |->
        [data |-> sheet.rows[k],
         source_file |-> file.name,
         source_sheet |-> sheet.name,
         row_index |-> k - 1]]

\* an iteration that touches results[target_sheet] before it looks at df.empty
check_target_touching(file, mapping, target_sheet, acc) ==
    LET normalized_target == normalize_sheet_name(target_sheet) IN
    IF normalized_target \in DOMAIN mapping
    THEN LET original_sheet == mapping[normalized_target]
             df == worksheet(file, original_sheet)
         IN IF ~df.readable
            THEN [acc EXCEPT !.file_log = Append(@, MsgReadError(original_sheet))]
            ELSE IF df.rows = << >>
            THEN [acc EXCEPT !.file_log = Append(@, MsgEmpty(original_sheet)),
                             !.results = DictExtend(@, target_sheet, << >>)]
            ELSE [results |-> DictExtend(acc.results, target_sheet,
                                         extracted_rows(file, df)),
                  file_log |-> Append(acc.file_log,
                                  MsgFound(original_sheet, Len(df.rows),
                                           Cardinality(df.columns))),
                  matches_found |-> acc.matches_found + 1]
    ELSE [acc EXCEPT !.file_log = Append(@, MsgNotFound(target_sheet))]

\* one iteration of the loop of line 59 for target_sheet, on the accumulated
\* [results, file_log, matches_found]
check_target(file, mapping, target_sheet, acc) ==
    LET normalized_target == normalize_sheet_name(target_sheet) IN
    IF normalized_target \in DOMAIN mapping
    THEN LET original_sheet == mapping[normalized_target]
             df == worksheet(file, original_sheet)
         IN IF ~df.readable
            THEN [acc EXCEPT !.file_log = Append(@, MsgReadError(original_sheet))]
            ELSE IF df.rows = << >>
            THEN [acc EXCEPT !.file_log = Append(@, MsgEmpty(original_sheet))]
            ELSE [results |-> DictExtend(acc.results, target_sheet,
                                         extracted_rows(file, df)),
                  file_log |-> Append(acc.file_log,
                                  MsgFound(original_sheet, Len(df.rows),
                                           Cardinality(df.columns))),
                  matches_found |-> acc.matches_found + 1]
    ELSE [acc EXCEPT !.file_log = Append(@, MsgNotFound(target_sheet))]

\* a loop that a worksheet read failure ends
RECURSIVE check_targets_until_failure(_, _, _, _, _)
check_targets_until_failure(file, mapping, targets, k, acc) ==
    IF k > Len(targets) THEN acc
    ELSE LET next == check_target(file, mapping, targets[k], acc)
         IN IF next.file_log[Len(next.file_log)].text
                  = "Error reading sheet '{sheet}': {e}"
            THEN next
            ELSE check_targets_until_failure(file, mapping, targets, k + 1, next)

\* the loop of lines 59-88
RECURSIVE check_targets(_, _, _, _, _)
check_targets(file, mapping, targets, k, acc) ==
    IF k > Len(targets) THEN acc
    ELSE check_targets(file, mapping, targets, k + 1,
                       check_target(file, mapping, targets[k], acc))

\* the whole call: [results, file_log, tmp_left], tmp_left the number of
\* temporary files the call leaves on disk.  The temporary file is written
\* first (lines 42-44); os.unlink (line 96) is the last statement of the try
\* block, so it runs only when pd.ExcelFile did not raise.
process_excel_file(file, targets) ==
    IF ~file.opens
    THEN [results |-> EmptyDict,
          file_log |-> << MsgFileError(file.name) >>,
          tmp_left |-> 1]
    ELSE LET start == [results |-> EmptyDict,
                       file_log |-> << MsgProcessing(file.name),
                                       MsgFoundSheets(sheet_names(file)) >>,
                       matches_found |-> 0]
             done == check_targets(file, sheet_mapping(file), targets, 1, start)
         IN [results |-> done.results,
             file_log |-> Append(done.file_log,
                            IF done.matches_found = 0 THEN MsgNoMatch
                            ELSE MsgSuccess(done.matches_found)),
             tmp_left |-> 0]

-----------------------------------------------------------------------------
(* create_individual_excel_file (lines 103-130) *)

\* the function returns None or the workbook: no or one element
NoOutput == << >>
NaN == "NaN"

\* lines 116-119: row_data = item['data'].copy() and the three provenance keys
row_with_source(item) ==
    [c \in DOMAIN item.data \cup {"_Source_File", "_Source_Sheet", "_Original_Row"} |->
        IF c = "_Source_File" THEN item.source_file
        ELSE IF c = "_Source_Sheet" THEN item.source_sheet
        ELSE IF c = "_Original_Row" THEN item.row_index
        ELSE item.data[c]]

RECURSIVE all_rows(_)
all_rows(items) ==
    IF items = << >> THEN << >>
    ELSE <<row_with_source(Head(items))>> \o all_rows(Tail(items))

\* a table with the columns of its first row only
DataFrame_first_row(rows) ==
    LET columns == DOMAIN rows[1]
    IN [columns |-> columns,
        rows |-> [k \in DOMAIN rows |->
                    [c \in columns |->
                        IF c \in DOMAIN rows[k] THEN rows[k][c] ELSE NaN]]]

\* pd.DataFrame(all_rows): the columns are the union of the rows' keys, a row
\* has NaN where it lacks the column
DataFrame(rows) ==
    LET columns == UNION {DOMAIN rows[k] : k \in DOMAIN rows}
    IN [columns |-> columns,
        rows |-> [k \in DOMAIN rows |->
                    [c \in columns |->
                        IF c \in DOMAIN rows[k] THEN rows[k][c] ELSE NaN]]]

\* the workbook written has the one worksheet "Data" holding df_combined
create_individual_excel_file(sheet_name, items) ==
    IF items = << >> THEN NoOutput
    ELSE << [sheet |-> "Data", table |-> DataFrame(all_rows(items))] >>

-----------------------------------------------------------------------------
(* Session state and the processing loop *)

\* log_message (lines 28-33); msg_type defaults to "info"
DefaultMsgType == "info"
log_message(log, message, msg_type) ==
    Append(log, [message |-> message, type |-> msg_type])

\* lines 252-253: every entry of the file's log goes through log_message(log_entry)
RECURSIVE add_to_log(_, _)
add_to_log(log, entries) ==
    IF entries = << >> THEN log
    ELSE add_to_log(log_message(log, Head(entries), DefaultMsgType),
                    Tail(entries))

\* lines 245-246
RECURSIVE merge_results(_, _, _)
merge_results(merged, file_results, keys) ==
    IF keys = {} THEN merged
    ELSE LET sheet_name == CHOOSE x \in keys : TRUE
         IN merge_results(DictExtend(merged, sheet_name, file_results[sheet_name]),
                          file_results, keys \ {sheet_name})

\* line 224
new_files(uploaded_files, processed) ==
    SelectSeq(uploaded_files, LAMBDA f : f.name \notin processed)

\* line 231
limited(files, preview_limit) ==
    IF preview_limit = AllFiles THEN files
    ELSE SubSeq(files, 1, IF preview_limit < Len(files) THEN preview_limit
                          ELSE Len(files))

\* the body of the loop of lines 238-256 for one file, on the session state
\* st = [merged_data, processed_files, processing_log]
process_one(st, f, targets) ==
    LET call == process_excel_file(f, targets)
    IN [merged_data |-> merge_results(st.merged_data, call.results,
                                      DOMAIN call.results),
        processed_files |-> st.processed_files \cup {f.name},
        processing_log |-> add_to_log(st.processing_log, call.file_log)]

\* the loop of lines 238-256
RECURSIVE process_loop(_, _, _)
process_loop(st, files, targets) ==
    IF files = << >> THEN st
    ELSE process_loop(process_one(st, Head(files), targets),
                      Tail(files), targets)

Session ==
    [merged_data |-> merged_data, processed_files |-> processed_files,
     processing_log |-> processing_log]

NoName == << >>

SessionInit ==
    /\ merged_data = EmptyDict
    /\ processed_files = {}
    /\ processing_log = << >>
    /\ status = ""
    /\ files_to_process = << >>
    /\ target_sheets = << >>
    /\ reset_from = {}

NameIdle ==
    /\ name_a = NoName /\ name_b = NoName
    /\ norm_a = NoName /\ norm_b = NoName
    /\ name_done = FALSE

CallIdle ==
    /\ call_file = BadXlsx
    /\ call_targets = << >>
    /\ call_results = EmptyDict
    /\ call_log = << >>
    /\ call_tmp = 0
    /\ call_done = FALSE

ExportIdle ==
    /\ data_list = << >>
    /\ excel_file = NoOutput
    /\ export_done = FALSE

Init == SessionInit /\ NameIdle /\ CallIdle /\ ExportIdle

\* the "Process Files" button (lines 220-262) with the widgets' current
\* values: the uploaded files, the parsed target names and the selected limit
ProcessFiles(uploaded_files, targets, preview_limit) ==
    /\ uploaded_files # << >>
    /\ targets # << >>
    /\ new_files(uploaded_files, processed_files) # << >>
    /\ LET to_process ==
               limited(new_files(uploaded_files, processed_files), preview_limit)
           after == process_loop(Session, to_process, targets)
       IN /\ merged_data' = after.merged_data
          /\ processed_files' = after.processed_files
          /\ processing_log' = after.processing_log
          /\ files_to_process' = to_process
    /\ target_sheets' = targets
    /\ status' = "Processing complete!"
    /\ reset_from' = IF status = "All data reset!" THEN reset_from ELSE {}
    /\ UNCHANGED <<nameVars, callVars, exportVars>>

\* a reset that forgets to clear the processed file names
reset_keeping_processed_files ==
    /\ merged_data' = EmptyDict
    /\ processed_files' = processed_files
    /\ processing_log' = << >>

\* reset_all_data (lines 132-136)
reset_all_data ==
    /\ merged_data' = EmptyDict
    /\ processed_files' = {}
    /\ processing_log' = << >>

\* the "Reset All" button (lines 163-165)
ResetAll ==
    /\ reset_all_data
    /\ status' = "All data reset!"
    /\ files_to_process' = << >>
    /\ target_sheets' = << >>
    /\ reset_from' = processed_files
    /\ UNCHANGED <<nameVars, callVars, exportVars>>

\* the "Clear Log" button (lines 168-170)
ClearLog ==
    /\ processing_log' = << >>
    /\ status' = "Log cleared!"
    /\ files_to_process' = << >>
    /\ target_sheets' = << >>
    /\ reset_from' = {}
    /\ UNCHANGED <<merged_data, processed_files>>
    /\ UNCHANGED <<nameVars, callVars, exportVars>>

\* what the user uploads and types between the clicks of one session
SessionFiles == {OneXlsx, TwoXlsx}
Uploads == SeqsUpTo(SessionFiles, MaxUpload)
RunTargetLists == SeqsUpTo(TargetNames, MaxTargets)

Next ==
    \/ \E u \in Uploads, t \in RunTargetLists, l \in PreviewLimits :
          ProcessFiles(u, t, l)
    \/ ResetAll
    \/ ClearLog

Spec == Init /\ [][Next]_vars

-----------------------------------------------------------------------------
(* One "Process Files" click on a fresh session, over more files and more  *)
(* target names than the session of many clicks has                         *)

ThreeXlsx ==
    [name |-> "three.xlsx", opens |-> TRUE,
     sheets |-> << Sheet(<<"B">>, {"x"}, << [x |-> "8"] >>, FALSE),
                   Sheet(<<"A", "b">>, {"x", "y"}, << [x |-> "1", y |-> "2"] >>,
                         TRUE) >>]

RunFiles == Files \cup {ThreeXlsx}
RunUploads == SeqsUpTo(RunFiles, MaxUpload)
TargetLists == SeqsUpTo(CallTargetNames, MaxTargets)

FirstClick ==
    /\ status = ""
    /\ \E u \in RunUploads, t \in TargetLists, l \in PreviewLimits :
          ProcessFiles(u, t, l)

NextRun == FirstClick

SpecRun == Init /\ [][NextRun]_vars

-----------------------------------------------------------------------------
(* normalize_sheet_name on its own: two names, the second one elementary   *)
(* edit away from the first                                                 *)

Names == SeqsUpTo(Chars, MaxNameLen)

InsertAt(s, p, c) == SubSeq(s, 1, p - 1) \o <<c>> \o SubSeq(s, p, Len(s))
DeleteAt(s, p) == SubSeq(s, 1, p - 1) \o SubSeq(s, p + 1, Len(s))

\* the names one elementary difference away from s: one letter in the other
\* case, one space or underscore more or less anywhere, one whitespace
\* character more or less at either end
CaseEdits(s) ==
    { [s EXCEPT ![p] = c] : <<p, c>> \in
        { <<p, c>> \in (DOMAIN s) \X Chars :
             c # s[p] /\ lower_char(c) = lower_char(s[p]) } }

Insertions(s, p, cs) == { InsertAt(s, p, c) : c \in cs }

EndEdits(s) ==
    Insertions(s, 1, Whitespace) \cup Insertions(s, Len(s) + 1, Whitespace)
    \cup (IF s # << >> /\ s[1] \in Whitespace THEN {DeleteAt(s, 1)} ELSE {})
    \cup (IF s # << >> /\ s[Len(s)] \in Whitespace THEN {DeleteAt(s, Len(s))}
          ELSE {})

SpaceEdits(s) ==
    UNION { Insertions(s, p, {" "}) : p \in 1..(Len(s) + 1) }
    \cup { DeleteAt(s, p) : p \in { q \in DOMAIN s : s[q] = " " } }

UnderscoreEdits(s) ==
    UNION { Insertions(s, p, {"_"}) : p \in 1..(Len(s) + 1) }
    \cup { DeleteAt(s, p) : p \in { q \in DOMAIN s : s[q] = "_" } }

\* s has an underscore at p with a non-whitespace character somewhere on
\* either side of it
Enclosed(s, p) ==
    /\ p \in DOMAIN s
    /\ s[p] = "_"
    /\ \E j \in 1..(p - 1) : s[j] \notin Whitespace
    /\ \E k \in (p + 1)..Len(s) : s[k] \notin Whitespace

OnlySpaces(s) == \A k \in DOMAIN s : s[k] \in Whitespace => s[k] = " "

\* the underscore edits of s that insert or delete an enclosed underscore,
\* and all of them when neither name has whitespace other than spaces
SafeUnderscoreEdits(s) ==
    { t \in UnderscoreEdits(s) :
        \/ OnlySpaces(s) /\ OnlySpaces(t)
        \/ \E p \in DOMAIN t : Enclosed(t, p) /\ DeleteAt(t, p) = s
        \/ \E p \in DOMAIN s : Enclosed(s, p) /\ DeleteAt(s, p) = t }

Edits(s) == CaseEdits(s) \cup EndEdits(s) \cup SpaceEdits(s) \cup UnderscoreEdits(s)

SafeEdits(s) ==
    CaseEdits(s) \cup EndEdits(s) \cup SpaceEdits(s) \cup SafeUnderscoreEdits(s)

NameInit ==
    /\ name_a \in Names
    /\ name_b \in Edits(name_a) \cap Names
    /\ norm_a = NoName /\ norm_b = NoName
    /\ name_done = FALSE

Normalize ==
    /\ ~name_done
    /\ norm_a' = normalize_sheet_name(name_a)
    /\ norm_b' = normalize_sheet_name(name_b)
    /\ name_done' = TRUE
    /\ UNCHANGED <<name_a, name_b>>
    /\ UNCHANGED <<sessionVars, callVars, exportVars>>

NextName == Normalize

InitName == SessionInit /\ NameInit /\ CallIdle /\ ExportIdle

SpecName == InitName /\ [][NextName]_vars

-----------------------------------------------------------------------------
(* process_excel_file on its own *)

CallInit ==
    /\ call_file \in Workbooks \cup Files
    /\ call_targets \in TargetLists
    /\ call_results = EmptyDict
    /\ call_log = << >>
    /\ call_tmp = 0
    /\ call_done = FALSE

Call ==
    /\ ~call_done
    /\ LET call == process_excel_file(call_file, call_targets)
       IN /\ call_results' = call.results
          /\ call_log' = call.file_log
          /\ call_tmp' = call.tmp_left
    /\ call_done' = TRUE
    /\ UNCHANGED <<call_file, call_targets>>
    /\ UNCHANGED <<sessionVars, nameVars, exportVars>>

NextCall == Call

InitCall == SessionInit /\ NameIdle /\ CallInit /\ ExportIdle

SpecCall == InitCall /\ [][NextCall]_vars

-----------------------------------------------------------------------------
(* create_individual_excel_file on its own *)

\* rows as process_excel_file extracts them, and one whose worksheet has a
\* column named like a provenance column
RowPool ==
    { extracted_rows(f, f.sheets[k])[r] :
        <<f, k, r>> \in { <<f, k, r>> \in Files \X (1..3) \X (1..2) :
                             /\ k \in DOMAIN f.sheets
                             /\ r \in DOMAIN f.sheets[k].rows } }
    \cup { [data |-> [_Source_File |-> "cell"], source_file |-> "two.xlsx",
            source_sheet |-> <<"B">>, row_index |-> 1] }

ExportInit ==
    /\ data_list \in SeqsUpTo(RowPool, MaxRows)
    /\ excel_file = NoOutput
    /\ export_done = FALSE

Export ==
    /\ ~export_done
    /\ excel_file' = create_individual_excel_file(<<"B">>, data_list)
    /\ export_done' = TRUE
    /\ UNCHANGED data_list
    /\ UNCHANGED <<sessionVars, nameVars, callVars>>

NextExport == Export

InitExport == SessionInit /\ NameIdle /\ CallIdle /\ ExportInit

SpecExport == InitExport /\ [][NextExport]_vars

-----------------------------------------------------------------------------
(* Claims about normalize_sheet_name, checked under SpecName *)

\* trim, then lowercase, then removal of every space and underscore
TrimLowerRemove(s) ==
    SelectSeq([k \in DOMAIN strip(s) |-> lower_char(strip(s)[k])],
              LAMBDA c : c \notin {" ", "_"})

\* C3 as stated: two names that differ only in letter case, leading/trailing
\* whitespace, interior spaces and underscores normalize to the same key, and
\* the key is trim, then lowercase, then removal of spaces and underscores.
C3_AllEditsInsignificant ==
    name_done =>
        /\ norm_a = norm_b
        /\ norm_a = TrimLowerRemove(name_a)

\* C3 amended: case, leading/trailing whitespace and spaces are insignificant,
\* and so is an underscore that has a non-whitespace character on both sides
\* or stands in a name whose only whitespace is the space; the key is trim,
\* then lowercase, then removal of spaces and underscores.
C3_SafeEditsInsignificant ==
    name_done =>
        /\ name_b \in SafeEdits(name_a) => norm_a = norm_b
        /\ norm_a = TrimLowerRemove(name_a)
        /\ norm_b = TrimLowerRemove(name_b)

\* two different names, an enclosed underscore and a tab apart from letters,
\* that were normalized to one key
C3_Witness ==
    /\ name_done
    /\ name_a = <<"\t", "A", "b">>
    /\ name_b = <<"\t", "A", "_", "b">>
    /\ name_b \in SafeEdits(name_a)
    /\ norm_a = <<"a", "b">>
    /\ norm_b = <<"a", "b">>

-----------------------------------------------------------------------------
(* Claims about process_excel_file, checked under SpecCall *)

\* the worksheets of file f whose normalized name is that of target
MatchingIn(f, target) ==
    { k \in DOMAIN f.sheets :
        normalize_sheet_name(f.sheets[k].name) = normalize_sheet_name(target) }

\* the last worksheet, in the file's order, that the target matches
LastMatchingIn(f, target) ==
    f.sheets[CHOOSE k \in MatchingIn(f, target) :
                \A j \in MatchingIn(f, target) : j <= k]

\* file f has rows for the target: it opens, and the last worksheet the
\* target matches is readable and not empty
Yields(f, target) ==
    /\ f.opens
    /\ MatchingIn(f, target) # {}
    /\ LastMatchingIn(f, target).readable
    /\ LastMatchingIn(f, target).rows # << >>

Matching(target) == MatchingIn(call_file, target)

\* one ExtractedRow per data row of worksheet w of the called file
RowsOf(w) ==
    [r \in 1..Len(w.rows) |->
        [data |-> w.rows[r], source_file |-> call_file.name,
         source_sheet |-> w.name, row_index |-> r - 1]]

Occurrences(seq, x) == Cardinality({k \in DOMAIN seq : seq[k] = x})

RECURSIVE Repeat(_, _)
Repeat(seq, n) == IF n = 0 THEN << >> ELSE seq \o Repeat(seq, n - 1)

Logged(message) == \E k \in DOMAIN call_log : call_log[k] = message

\* C4 as stated: a target whose normalized name is that of a non-empty
\* worksheet gets exactly one ExtractedRow per data row of that worksheet,
\* under the target's own name; a target no worksheet matches gets a
\* "not found" entry, no rows and no key.
C4_RowsOfAnyMatchingSheet ==
    (call_done /\ call_file.opens) =>
        \A t \in Range(call_targets) :
            /\ \A k \in Matching(t) :
                  call_file.sheets[k].rows # << >> =>
                      /\ t \in DOMAIN call_results
                      /\ call_results[t] = RowsOf(call_file.sheets[k])
            /\ Matching(t) = {} =>
                  /\ t \notin DOMAIN call_results
                  /\ Logged(MsgNotFound(t))

LastMatching(t) == LastMatchingIn(call_file, t)

\* C4 amended: when the last worksheet a target matches is readable and
\* non-empty, the target's own name is a key holding one ExtractedRow per data
\* row of that worksheet, once for each time the target stands in the list;
\* when that worksheet is empty or unreadable, or no worksheet matches, the
\* target is no key, and an unmatched target has a "not found" entry.
C4_RowsOfLastReadableSheet ==
    (call_done /\ call_file.opens) =>
        /\ \A t \in Range(call_targets) :
              IF Matching(t) # {} /\ LastMatching(t).readable
                                  /\ LastMatching(t).rows # << >>
              THEN /\ t \in DOMAIN call_results
                   /\ call_results[t] =
                         Repeat(RowsOf(LastMatching(t)),
                                Occurrences(call_targets, t))
              ELSE /\ t \notin DOMAIN call_results
                   /\ Matching(t) = {} => Logged(MsgNotFound(t))
        /\ DOMAIN call_results \subseteq Range(call_targets)

\* a worksheet matched under another spelling than the target's, and a
\* target that is not in the file
C4_Witness ==
    /\ call_done
    /\ sheet_names(call_file) = << <<"b", " ">>, <<"a", "_", "b">> >>
    /\ call_targets = << <<"A", " ", "b">>, <<"c">> >>
    /\ DOMAIN call_results = { <<"A", " ", "b">> }
    /\ call_results[<<"A", " ", "b">>] =
          << [data |-> [x |-> "5", z |-> "6"], source_file |-> "book.xlsx",
              source_sheet |-> <<"a", "_", "b">>, row_index |-> 0] >>
    /\ Logged(MsgNotFound(<<"c">>))

\* C5: of the worksheets of one normalized key the lookup holds the last one
\* in the file's order; a target of that key gets rows of that worksheet only,
\* and the call ends with its summary entry instead of a file error.
C5_LastSeenWins ==
    (call_done /\ call_file.opens) =>
        /\ \A k \in DOMAIN call_file.sheets :
              LET key == normalize_sheet_name(call_file.sheets[k].name)
                  last == CHOOSE j \in Matching(call_file.sheets[k].name) :
                              \A q \in Matching(call_file.sheets[k].name) : q <= j
              IN /\ key \in DOMAIN sheet_mapping(call_file)
                 /\ sheet_mapping(call_file)[key] = call_file.sheets[last].name
        /\ \A t \in DOMAIN call_results :
              \A r \in DOMAIN call_results[t] :
                  call_results[t][r].source_sheet = LastMatching(t).name
        /\ ~Logged(MsgFileError(call_file.name))
        /\ call_log[Len(call_log)].text \in
              { "No matching sheets found in file",
                "Successfully processed {n} matching sheets" }

\* two non-empty worksheets of one key, the target has the rows of the second
C5_Witness ==
    /\ call_done
    /\ sheet_names(call_file) = << <<"A", "b">>, <<"a", "_", "b">> >>
    /\ call_targets = << <<"A", " ", "b">> >>
    /\ Len(call_results[<<"A", " ", "b">>]) = 1
    /\ call_results[<<"A", " ", "b">>][1].source_sheet = <<"a", "_", "b">>

\* C8: no temporary file of the call is left when the call has returned,
\* whatever its outcome.
C8_NoTemporaryFileLeft == call_done => call_tmp = 0

-----------------------------------------------------------------------------
(* Claims about create_individual_excel_file, checked under SpecExport *)

ProvenanceColumns == {"_Source_File", "_Source_Sheet", "_Original_Row"}

\* C6: no output exactly for the empty row sequence; otherwise one table with
\* a row per input row, in input order, whose columns are the union of the
\* rows' data keys and the three provenance columns, these carrying the row's
\* source_file, source_sheet and row_index.
C6_ExportTable ==
    export_done =>
        /\ excel_file = NoOutput <=> data_list = << >>
        /\ data_list # << >> =>
              LET table == excel_file[1].table IN
              /\ Len(excel_file) = 1
              /\ Len(table.rows) = Len(data_list)
              /\ table.columns =
                    UNION {DOMAIN data_list[k].data : k \in DOMAIN data_list}
                    \cup ProvenanceColumns
              /\ \A k \in DOMAIN data_list :
                    /\ DOMAIN table.rows[k] = table.columns
                    /\ table.rows[k]["_Source_File"] = data_list[k].source_file
                    /\ table.rows[k]["_Source_Sheet"] = data_list[k].source_sheet
                    /\ table.rows[k]["_Original_Row"] = data_list[k].row_index
                    /\ \A c \in DOMAIN data_list[k].data \ ProvenanceColumns :
                          table.rows[k][c] = data_list[k].data[c]

\* two rows of different worksheets exported: the second row's column z is
\* a column of the table and missing in the first row
C6_Witness ==
    /\ export_done
    /\ Len(data_list) = 2
    /\ DOMAIN data_list[1].data = {"x", "y"}
    /\ DOMAIN data_list[2].data = {"x", "z"}
    /\ Len(excel_file) = 1
    /\ excel_file[1].table.columns = {"x", "y", "z"} \cup ProvenanceColumns
    /\ excel_file[1].table.rows[1]["z"] = NaN
    /\ excel_file[1].table.rows[2]["z"] = "6"

-----------------------------------------------------------------------------
(* Claims about one processing run, checked under SpecRun *)

\* the rows of merged data m that came from the file named n
RowsFrom(m, n) ==
    SumOver([t \in DOMAIN m |->
                Cardinality({r \in DOMAIN m[t] : m[t][r].source_file = n})],
            DOMAIN m)

\* the number of log entries one file adds: one for a file that does not
\* open, else two headers, one per target and the summary
EntriesOf(f, targets) == IF f.opens THEN Len(targets) + 3 ELSE 1

RECURSIVE EntriesBefore(_, _, _)
EntriesBefore(files, j, targets) ==
    IF j = 1 THEN 0
    ELSE EntriesBefore(files, j - 1, targets)
         + EntriesOf(files[j - 1], targets)

\* what a run over the files p with the targets ts has done when it is over:
\* every file is in processed_files; a file that does not open has one error
\* entry naming it and no rows; in a file that opens every target has its
\* entry, a target whose worksheet cannot be read an error entry naming the
\* worksheet, and every target with rows has them in merged_data, also after
\* a target whose worksheet could not be read.
RunContinued(p, ts) ==
    /\ status' = "Processing complete!"
    /\ processed_files' = processed_files \cup {p[j].name : j \in DOMAIN p}
    /\ Len(processing_log') =
          Len(processing_log) + EntriesBefore(p, Len(p) + 1, ts)
    /\ \A j \in DOMAIN p :
          LET f == p[j]
              at == Len(processing_log) + EntriesBefore(p, j, ts)
          IN IF ~f.opens
             THEN /\ processing_log'[at + 1].message = MsgFileError(f.name)
                  /\ RowsFrom(merged_data', f.name) = RowsFrom(merged_data, f.name)
             ELSE \A k \in DOMAIN ts :
                    LET entry == processing_log'[at + 2 + k].message IN
                    IF MatchingIn(f, ts[k]) = {}
                    THEN entry = MsgNotFound(ts[k])
                    ELSE IF ~LastMatchingIn(f, ts[k]).readable
                    THEN entry = MsgReadError(LastMatchingIn(f, ts[k]).name)
                    ELSE IF LastMatchingIn(f, ts[k]).rows = << >>
                    THEN entry = MsgEmpty(LastMatchingIn(f, ts[k]).name)
                    ELSE /\ entry.sheet = LastMatchingIn(f, ts[k]).name
                         /\ ts[k] \in DOMAIN merged_data'
                         /\ \E r \in DOMAIN merged_data'[ts[k]] :
                               merged_data'[ts[k]][r].source_file = f.name

\* C7: within one run a worksheet that cannot be read does not keep the
\* remaining targets of the file from being attempted, a file that cannot be
\* opened contributes no rows and does not keep the remaining files from
\* being processed, each failure has its log entry, and the run completes.
C7_ContinueOnFailure ==
    [][status' = "Processing complete!" =>
          RunContinued(files_to_process', target_sheets')]_vars

\* a run over a file that does not open and then a file whose first target's
\* worksheet cannot be read: the second file is processed and its second
\* target has its rows
C7_Witness ==
    /\ status = "Processing complete!"
    /\ processed_files = {"bad.xlsx", "three.xlsx"}
    /\ Len(processing_log) = 6
    /\ processing_log[1].message = MsgFileError("bad.xlsx")
    /\ processing_log[4].message = MsgReadError(<<"B">>)
    /\ processing_log[5].message = MsgFound(<<"A", "b">>, 1, 2)
    /\ DOMAIN merged_data = { <<"A", " ", "b">> }
    /\ RowsFrom(merged_data, "three.xlsx") = 1
    /\ RowsFrom(merged_data, "bad.xlsx") = 0

\* C10: in the stored log an entry for an empty matched worksheet is a
\* warning, an entry for a worksheet read failure or a file failure is an
\* error, and a "sheet not found" entry is not an error.
C10_SeverityFollowsTaxonomy ==
    \A k \in DOMAIN processing_log :
        LET entry == processing_log[k] IN
        /\ entry.message.text = "Sheet '{sheet}' is empty" =>
              entry.type = "warning"
        /\ entry.message.text \in { "Error reading sheet '{sheet}': {e}",
                                    "Error processing file {file}: {e}" } =>
              entry.type = "error"
        /\ entry.message.text = "Sheet '{sheet}' not found" =>
              entry.type # "error"

-----------------------------------------------------------------------------
(* Claims about the session, checked under Spec *)

FileNamed(n) == CHOOSE f \in Files : f.name = n

MatchedRows(f, target) ==
    IF Yields(f, target) THEN Len(LastMatchingIn(f, target).rows) ELSE 0

\* C1: the rows stored under a target are the matched rows of each processed
\* file name, each file counted once.
C1_EachFileCountedOnce ==
    \A t \in DOMAIN merged_data :
        Len(merged_data[t]) =
            SumOver([n \in processed_files |-> MatchedRows(FileNamed(n), t)],
                    processed_files)

\* what one run from a fresh session over the files p leaves
FreshRun(p, ts) ==
    process_loop([merged_data |-> EmptyDict, processed_files |-> {},
                  processing_log |-> << >>], p, ts)

\* C2: after Reset All the merged data, the processed files and the log are
\* empty, and a Process Files click after it processes the uploaded files
\* again, those processed before the reset too, and leaves what the same
\* click leaves on a fresh session.
C2_ResetThenFirstRun ==
    /\ [](status = "All data reset!" =>
            /\ merged_data = EmptyDict
            /\ processed_files = {}
            /\ processing_log = << >>)
    /\ [][(status = "All data reset!" /\ status' = "Processing complete!") =>
            LET p == files_to_process'
                fresh == FreshRun(files_to_process', target_sheets')
            IN /\ p # << >>
               /\ {p[j].name : j \in DOMAIN p} \subseteq processed_files'
               /\ merged_data' = fresh.merged_data
               /\ processed_files' = fresh.processed_files
               /\ processing_log' = fresh.processing_log]_vars

\* one.xlsx was processed, Reset All was clicked, and the next click has
\* processed one.xlsx again
C2_Witness ==
    /\ status = "Processing complete!"
    /\ "one.xlsx" \in reset_from
    /\ "one.xlsx" \in processed_files
    /\ DOMAIN merged_data = { <<"A", " ", "b">> }
    /\ RowsFrom(merged_data, "one.xlsx") = 1

====
